---- MODULE Spec2Model ----
(***************************************************************************)
(* Model of UnixPipe (src/src/UnixPipe.hxx): a framed message channel over *)
(* a named pipe.  Strings are sequences of one-character strings, indices  *)
(* in the helper operators are 0-based as in std::string.                  *)
(***************************************************************************)
EXTENDS Integers, Sequences, FiniteSets, TLC

(***************************************************************************)
(* Bounds of the model.                                                    *)
(***************************************************************************)
\* number of pieces an identifier / payload of the codec runs is built from
MaxPieces == 2
\* number of write() calls on the write-mode instance
MaxWrites == 2
\* bytes taken by a ::write call that does not take the whole request
PartialWrite == 24
\* number of bytes in front of the marker in the scanner runs
MaxLead == 1

(***************************************************************************)
(* Program constants.                                                      *)
(***************************************************************************)
\* UnixPipe::INITIAL_BUFFER_SIZE, 8096 in the source, scaled down
INITIAL_BUFFER_SIZE == 16
PREFIX == <<"N", "A", "M", "E", "D", "P", "I", "P", "E">>
START == <<"S", "T", "A", "R", "T">>
END == <<"E", "N", "D">>
\* std::string::npos
npos == -1
\* the '\0' the buffer is filled with
NUL == "NUL"
BACKSLASH == "\\"
Digits == <<"0", "1", "2", "3", "4", "5", "6", "7", "8", "9">>

Min2(a, b) == IF a < b THEN a ELSE b
Max2(a, b) == IF a < b THEN b ELSE a
SetMin(S) == CHOOSE x \in S : \A y \in S : x <= y
Chars(s) == {s[i] : i \in 1..Len(s)}

(***************************************************************************)
(* std::string operations used by the code.                                *)
(***************************************************************************)
\* s.find(pat, pos)
Find(s, pat, pos) ==
    LET cands == {i \in pos..(Len(s) - Len(pat)) : SubSeq(s, i + 1, i + Len(pat)) = pat}
    IN IF cands = {} THEN npos ELSE SetMin(cands)

\* s.find_first_of(chars, pos): first position holding ANY character of chars
FindFirstOf(s, chars, pos) ==
    LET cands == {i \in pos..(Len(s) - 1) : s[i + 1] \in chars}
    IN IF cands = {} THEN npos ELSE SetMin(cands)

\* s.substr(pos, n) for pos <= s.size()
Substr(s, pos, n) == SubSeq(s, pos + 1, Min2(pos + n, Len(s)))

\* s.replace(pos, n, r): at most the characters up to the end are replaced
Replace(s, pos, n, r) ==
    SubSeq(s, 1, pos) \o r \o SubSeq(s, pos + Min2(n, Len(s) - pos) + 1, Len(s))

RECURSIVE to_string(_)
to_string(n) == IF n < 10 THEN <<Digits[n + 1]>>
                ELSE to_string(n \div 10) \o <<Digits[(n % 10) + 1]>>

DigitValue(c) == CHOOSE d \in 0..9 : Digits[d + 1] = c
RECURSIVE DigitsValue(_)
DigitsValue(s) == IF s = <<>> THEN 0
                  ELSE 10 * DigitsValue(SubSeq(s, 1, Len(s) - 1)) + DigitValue(s[Len(s)])
\* the longest prefix of s made of decimal digits
LeadingDigits(s) ==
    LET stop == {i \in 1..Len(s) : s[i] \notin Chars(Digits)}
    IN IF stop = {} THEN s ELSE SubSeq(s, 1, SetMin(stop) - 1)
\* std::stoul(s): the value of the leading digits; npos stands for the
\* std::invalid_argument thrown when there is none.  (Leading white space
\* and a sign, which stoul also accepts, are outside the model's alphabet.)
stoul(s) == IF LeadingDigits(s) = <<>> THEN npos ELSE DigitsValue(LeadingDigits(s))

(***************************************************************************)
(* escape / unescape.  tagLength and escapedTag are function-local statics:*)
(* they are initialised by the first call, which is always the innermost   *)
(* call with PREFIX, and keep that value for START and END.                *)
(***************************************************************************)
tagLength == Len(PREFIX)
escapedTag == <<BACKSLASH>> \o PREFIX

RECURSIVE escapeFrom(_, _, _)
escapeFrom(str, tag, pos) ==
    LET p == Find(str, tag, pos)
    IN IF p = npos THEN str
       ELSE escapeFrom(Replace(str, p, tagLength, escapedTag), tag, p + Len(escapedTag))
escape(str, tag) == escapeFrom(str, tag, 0)

RECURSIVE unescapeFrom(_, _, _)
unescapeFrom(str, tag, pos) ==
    LET p == Find(str, escapedTag, pos)
    IN IF p = npos THEN str
       ELSE unescapeFrom(Replace(str, p, tagLength + 1, tag), tag, p + tagLength + 1)
unescape(str, tag) == unescapeFrom(str, tag, 0)

\* lines 120-121 left out: identifier and payload go into the frame as they are
escape3_Verbatim(s) == s
escape3(s) == escape(escape(escape(s, PREFIX), START), END)
unescape3(s) == unescape(unescape(unescape(s, PREFIX), START), END)

\* the frame write() builds
fullMsg(id, msg) ==
    PREFIX \o <<":">> \o START \o <<":">> \o to_string(Len(escape3(id))) \o <<":">>
        \o to_string(Len(escape3(msg))) \o <<":">> \o escape3(id) \o <<":">>
        \o escape3(msg) \o <<":">> \o END \o <<":">>

(***************************************************************************)
(* nextMessage(input, filled).  input is the std::string (its size() is    *)
(* Len(input)); spill are the bytes ::read stored behind input.size() in   *)
(* the string's reserved capacity, which only the unchecked operator[] of  *)
(* line 209 can reach.                                                     *)
(***************************************************************************)
PipeMessage(id, content, totalLength) ==
    [id |-> id, content |-> content, totalLength |-> totalLength]
\* the empty msg of lines 170-171
EmptyMessage == PipeMessage(<<>>, <<>>, 0)

prefix == PREFIX \o <<":">> \o START \o <<":">>

\* input[i] without a bounds check: behind size() it reads the raw storage
At(input, spill, i) ==
    IF i < Len(input) THEN input[i + 1]
    ELSE IF i - Len(input) < Len(spill) THEN spill[i - Len(input) + 1]
    ELSE NUL

\* posPrefix of the marker loop, lines 177-184: find_first_of is given the
\* marker as a character set
posPrefixOf(input) == FindFirstOf(input, Chars(prefix), 0)

\* The marker loop leaves posPrefix unchanged when the candidate is escaped,
\* so it exits only through one of its two exits in the first iteration.
nextMessageReturns(input, filled) ==
    IF filled < Len(prefix) THEN TRUE
    ELSE IF posPrefixOf(input) = npos THEN TRUE
    ELSE IF posPrefixOf(input) = 0 THEN TRUE
    ELSE input[posPrefixOf(input)] # BACKSLASH

nextMessage(input, spill, filled) ==
    LET posPrefix == posPrefixOf(input)
        posEndIdLen == FindFirstOf(input, {":"}, posPrefix + Len(prefix))
        posEndMsgLen == FindFirstOf(input, {":"}, posEndIdLen + 1)
        idLenStr == Substr(input, Len(prefix), posEndIdLen - Len(prefix))
        msgLenStr == Substr(input, posEndIdLen + 1, posEndMsgLen - (posEndIdLen + 1))
        idLen == stoul(idLenStr)
        msgLen == stoul(msgLenStr)
        totalLength == posEndMsgLen + idLen + msgLen + 4 + Len(END)
    IN IF filled < Len(prefix) THEN EmptyMessage
       ELSE IF posPrefix = npos THEN EmptyMessage
       ELSE IF posEndIdLen = npos THEN EmptyMessage
       ELSE IF posEndMsgLen = npos THEN EmptyMessage
       ELSE IF idLen = npos \/ msgLen = npos THEN EmptyMessage
       ELSE IF \/ filled < totalLength
               \/ FindFirstOf(input, Chars(END), totalLength - Len(END) - 1)
                      # totalLength - Len(END) - 1
               \/ At(input, spill, totalLength - 1) # ":"
            THEN EmptyMessage
       ELSE PipeMessage(unescape3(Substr(input, posEndMsgLen + 1, idLen)),
                        unescape3(Substr(input, posEndMsgLen + idLen + 2, msgLen)),
                        totalLength)

(***************************************************************************)
(* Inputs of the codec runs: identifiers and payloads built from the       *)
(* reserved tokens, the separator, a backslash and plain letters.          *)
(***************************************************************************)
Pieces == {PREFIX, START, END, <<":">>, <<BACKSLASH>>, <<"a">>, <<"b", "c">>}
RECURSIVE Concats(_)
Concats(n) == IF n = 0 THEN {<<>>}
              ELSE Concats(n - 1) \cup {s \o p : s \in Concats(n - 1), p \in Pieces}
Inputs == Concats(MaxPieces)

\* the payload of the documented scenario, id "NAMEDPIPE" and payload a:b\\c,
\* read as written and read as a C++ literal
ScenarioPayloads == {<<"a", ":", "b", BACKSLASH, BACKSLASH, "c">>,
                     <<"a", ":", "b", BACKSLASH, "c">>}

\* a backslash directly in front of a reserved token reads as an escape
FalseEscape(s) ==
    \E tag \in {PREFIX, START, END} : Find(s, <<BACKSLASH>> \o tag, 0) # npos

(***************************************************************************)
(* The system: a read-mode and a write-mode instance on the same FIFO, the *)
(* reader thread of the read-mode instance, and the threads that own the   *)
(* two instances.                                                          *)
(***************************************************************************)
Pipes == {"rd", "wr"}
\* m_access, fixed by the constructor
m_access(p) == IF p = "rd" THEN "Read" ELSE "Write"

\* identifiers and payloads of the write() calls
\* payloads whose frames (50 and 52 bytes) exceed three buffer increments
LongMsg == [i \in 1..22 |-> "x"]
LongerMsg == [i \in 1..24 |-> "x"]
\* a payload whose frame (35 bytes) needs the third buffer increment and
\* leaves less than LocalCapacity bytes behind it
MidMsg == [i \in 1..8 |-> "x"]
Messages == {<<<<"a">>, <<"x">>>>, <<<<"a">>, MidMsg>>, <<<<"a">>, LongMsg>>,
             <<<<"a">>, LongerMsg>>}
\* the write() calls of the runs that exercise every call on both instances
ApiMessages == {<<<<"a">>, <<>>>>, <<<<"a">>, <<"x">>>>}
\* identifiers and handlers of the addCallback() calls
CallbackIds == {<<"a">>}
Handlers == {"h1", "h2"}

NoException == [pipe |-> "-", op |-> "-", what |-> "none"]
Exception(p, op, what) == [pipe |-> p, op |-> op, what |-> what]
\* the map with no entry
NoCallbacks == [id \in {} |-> "h1"]

VARIABLES
    m_hasToStop,   \* [Pipes -> BOOLEAN]
    m_reader,      \* [Pipes -> {"null", "thread"}]
    m_callbacks,   \* [Pipes -> [subset of identifiers -> Handlers]]
    m_fd,          \* [Pipes -> {"open", "closed"}]
    owner,         \* [Pipes -> {"alive", "joining", "destroyed"}], the owning thread
    thrown,        \* the exception the last call on an instance ended with
    fifo,          \* bytes in the named pipe, written and not yet read
    calls,         \* history of the write() calls that reached the write loop
    r_pc,          \* position of the reader thread in handleRead
    input,         \* handleRead's buffer: the std::string, Len(input) = size()
    capacity,      \* input.capacity()
    spill,         \* bytes ::read stored behind input.size()
    filled,        \* handleRead's filled
    delivered,     \* history: the messages handleRead took out of the buffer
    c_pc, c_id, c_msg, c_frame, c_result   \* the codec runs

pipeVars == <<m_hasToStop, m_reader, m_callbacks, m_fd, owner, thrown>>
readerVars == <<r_pc, input, capacity, spill, filled, delivered>>
sysVars == <<m_hasToStop, m_reader, m_callbacks, m_fd, owner, thrown, fifo, calls,
             r_pc, input, capacity, spill, filled, delivered>>
codecVars == <<c_pc, c_id, c_msg, c_frame, c_result>>
vars == <<m_hasToStop, m_reader, m_callbacks, m_fd, owner, thrown, fifo, calls,
          r_pc, input, capacity, spill, filled, delivered,
          c_pc, c_id, c_msg, c_frame, c_result>>

\* state after the two constructors ran; the reader thread does not exist
InitSys ==
    /\ m_hasToStop = [p \in Pipes |-> FALSE]
    /\ m_reader = [p \in Pipes |-> "null"]
    /\ m_callbacks = [p \in Pipes |-> NoCallbacks]
    /\ m_fd = [p \in Pipes |-> "open"]
    /\ owner = [p \in Pipes |-> "alive"]
    /\ thrown = NoException
    /\ fifo = <<>>
    /\ calls = <<>>
    /\ r_pc = "none"
    /\ input = <<>>
    /\ capacity = 0
    /\ spill = <<>>
    /\ filled = 0
    /\ delivered = <<>>

InitCodecIdle ==
    /\ c_pc = "idle"
    /\ c_id = <<>>
    /\ c_msg = <<>>
    /\ c_frame = <<>>
    /\ c_result = EmptyMessage

Init == InitSys /\ InitCodecIdle

\* the thread that owns p can call into p: it is not inside the destructor
\* and its process was not ended by std::terminate ("read_failed",
\* "out_of_range") or by accesses outside the buffer ("corrupt")
CanCall(p) ==
    /\ owner[p] = "alive"
    /\ p = "rd" => r_pc \notin {"read_failed", "out_of_range", "corrupt"}

(***************************************************************************)
(* start(), lines 79-88                                                    *)
(***************************************************************************)
\* start() without the test of line 85: every call launches a thread
start_Relaunches(p) ==
    /\ CanCall(p)
    /\ IF m_access(p) # "Read"
       THEN /\ thrown' = Exception(p, "start", "access")
            /\ UNCHANGED <<m_hasToStop, m_reader, m_callbacks, m_fd, owner, fifo, calls>>
            /\ UNCHANGED readerVars
       ELSE /\ thrown' = NoException
            /\ m_reader' = [m_reader EXCEPT ![p] = "thread"]
            /\ r_pc' = "loop"
            /\ filled' = 0
            /\ input' = [i \in 1..INITIAL_BUFFER_SIZE |-> NUL]
            /\ capacity' = INITIAL_BUFFER_SIZE
            /\ spill' = <<>>
            /\ UNCHANGED delivered
            /\ UNCHANGED <<m_hasToStop, m_callbacks, m_fd, owner, fifo, calls>>
    /\ UNCHANGED codecVars

start(p) ==
    /\ CanCall(p)
    /\ IF m_access(p) # "Read"
       THEN /\ thrown' = Exception(p, "start", "access")
            /\ UNCHANGED <<m_hasToStop, m_reader, m_callbacks, m_fd, owner, fifo, calls>>
            /\ UNCHANGED readerVars
       ELSE /\ thrown' = NoException
            /\ IF m_reader[p] = "null"
               THEN /\ m_reader' = [m_reader EXCEPT ![p] = "thread"]
                    \* handleRead, lines 260-261
                    /\ r_pc' = "loop"
                    /\ filled' = 0
                    /\ input' = [i \in 1..INITIAL_BUFFER_SIZE |-> NUL]
                    /\ capacity' = INITIAL_BUFFER_SIZE
                    /\ spill' = <<>>
                    /\ UNCHANGED delivered
               ELSE UNCHANGED <<m_reader, r_pc, filled, input, capacity, spill, delivered>>
            /\ UNCHANGED <<m_hasToStop, m_callbacks, m_fd, owner, fifo, calls>>
    /\ UNCHANGED codecVars

(***************************************************************************)
(* addCallback(), lines 95-106                                             *)
(***************************************************************************)
\* addCallback() without the lookup of lines 101-103
addCallback_Overwrites(p, id, callback) ==
    /\ CanCall(p)
    /\ IF m_access(p) # "Read"
       THEN /\ thrown' = Exception(p, "addCallback", "access")
            /\ UNCHANGED m_callbacks
       ELSE /\ thrown' = NoException
            /\ m_callbacks' = [m_callbacks EXCEPT ![p] =
                   [k \in DOMAIN m_callbacks[p] \cup {id} |->
                       IF k = id THEN callback ELSE m_callbacks[p][k]]]
    /\ UNCHANGED <<m_hasToStop, m_reader, m_fd, owner, fifo, calls>>
    /\ UNCHANGED readerVars
    /\ UNCHANGED codecVars

addCallback(p, id, callback) ==
    /\ CanCall(p)
    /\ IF m_access(p) # "Read"
       THEN /\ thrown' = Exception(p, "addCallback", "access")
            /\ UNCHANGED m_callbacks
       ELSE IF id \in DOMAIN m_callbacks[p]
       THEN /\ thrown' = Exception(p, "addCallback", "duplicate")
            /\ UNCHANGED m_callbacks
       ELSE /\ thrown' = NoException
            /\ m_callbacks' = [m_callbacks EXCEPT ![p] =
                   [k \in DOMAIN m_callbacks[p] \cup {id} |->
                       IF k = id THEN callback ELSE m_callbacks[p][k]]]
    /\ UNCHANGED <<m_hasToStop, m_reader, m_fd, owner, fifo, calls>>
    /\ UNCHANGED readerVars
    /\ UNCHANGED codecVars

(***************************************************************************)
(* write(), lines 113-133                                                  *)
(***************************************************************************)
\* the byte counts a ::write call asked for req bytes may return
Accepts(req) == {req} \cup {k \in {PartialWrite} : k < req}

\* the loop condition of line 125: msg was escaped in place by line 121, so
\* msg.length() is the length of the escaped payload
WriteLoopContinues(id, msg, totalWritten) == totalWritten < Len(escape3(msg))

\* the values totalWritten can have at the head of the loop, starting from
\* the set heads
RECURSIVE WriteLoopHeads(_, _, _)
WriteLoopHeads(id, msg, heads) ==
    LET again == {h \in heads : WriteLoopContinues(id, msg, h)}
        next == heads \cup UNION {{h + k : k \in Accepts(Len(fullMsg(id, msg)) - h)} :
                                      h \in again}
    IN IF next = heads THEN heads ELSE WriteLoopHeads(id, msg, next)

\* write() with the access check of lines 116-118 moved behind the loop
write_AccessCheckedLast(p, id, msg) ==
    /\ CanCall(p)
    /\ Len(calls) < MaxWrites
    /\ \E t \in WriteLoopHeads(id, msg, {0}) :
          /\ fifo' = fifo \o SubSeq(fullMsg(id, msg), 1, t)
          /\ calls' = Append(calls, [pipe |-> p, id |-> id, msg |-> msg,
                                     written |-> t,
                                     failed |-> WriteLoopContinues(id, msg, t)])
          /\ thrown' = IF WriteLoopContinues(id, msg, t)
                       THEN Exception(p, "write", "failed")
                       ELSE IF m_access(p) # "Write"
                       THEN Exception(p, "write", "access")
                       ELSE NoException
    /\ UNCHANGED <<m_hasToStop, m_reader, m_callbacks, m_fd, owner>>
    /\ UNCHANGED readerVars
    /\ UNCHANGED codecVars

write(p, id, msg) ==
    /\ CanCall(p)
    /\ IF m_access(p) # "Write"
       THEN /\ thrown' = Exception(p, "write", "access")
            /\ UNCHANGED <<fifo, calls>>
       ELSE /\ Len(calls) < MaxWrites
            /\ \E t \in WriteLoopHeads(id, msg, {0}) :
                  /\ fifo' = fifo \o SubSeq(fullMsg(id, msg), 1, t)
                  /\ \/ /\ ~WriteLoopContinues(id, msg, t)
                        /\ thrown' = NoException
                        /\ calls' = Append(calls, [pipe |-> p, id |-> id, msg |-> msg,
                                                   written |-> t, failed |-> FALSE])
                     \* ::write returned -1, lines 127-130
                     \/ /\ WriteLoopContinues(id, msg, t)
                        /\ thrown' = Exception(p, "write", "failed")
                        /\ calls' = Append(calls, [pipe |-> p, id |-> id, msg |-> msg,
                                                   written |-> t, failed |-> TRUE])
    /\ UNCHANGED <<m_hasToStop, m_reader, m_callbacks, m_fd, owner>>
    /\ UNCHANGED readerVars
    /\ UNCHANGED codecVars

(***************************************************************************)
(* ~UnixPipe(), lines 66-74.  join() blocks the owner until handleRead     *)
(* returned.                                                               *)
(***************************************************************************)
DestructorBegin(p) ==
    /\ CanCall(p)
    /\ IF m_reader[p] = "thread"
       THEN /\ m_hasToStop' = [m_hasToStop EXCEPT ![p] = TRUE]
            /\ owner' = [owner EXCEPT ![p] = "joining"]
            /\ UNCHANGED m_fd
       ELSE /\ m_fd' = [m_fd EXCEPT ![p] = "closed"]
            /\ owner' = [owner EXCEPT ![p] = "destroyed"]
            /\ UNCHANGED m_hasToStop
    /\ thrown' = NoException
    /\ UNCHANGED <<m_reader, m_callbacks, fifo, calls>>
    /\ UNCHANGED readerVars
    /\ UNCHANGED codecVars

DestructorJoined(p) ==
    /\ owner[p] = "joining"
    /\ r_pc = "stopped"
    /\ m_fd' = [m_fd EXCEPT ![p] = "closed"]
    /\ owner' = [owner EXCEPT ![p] = "destroyed"]
    /\ UNCHANGED <<m_hasToStop, m_reader, m_callbacks, thrown, fifo, calls>>
    /\ UNCHANGED readerVars
    /\ UNCHANGED codecVars

(***************************************************************************)
(* handleRead(), lines 259-294: the reader thread of the read-mode         *)
(* instance.  input.capacity() (line 265) and input.size() (line 285) are  *)
(* different quantities; the standard only promises capacity >= size.      *)
(***************************************************************************)
\* the longest string a std::string keeps inside the object (libstdc++)
LocalCapacity == 15

\* capacity after input = input.substr(...), line 282 (libstdc++): a heap
\* result brings its own, exactly fitting storage; a short result is copied
\* into the storage input already has
CapacityAfterAssign(oldCapacity, newSize) ==
    IF newSize <= LocalCapacity THEN {oldCapacity} ELSE {newSize}

\* capacity after input.resize(newSize), line 287 (libstdc++): unchanged
\* when the storage suffices, else at least doubled
CapacityAfterResize(oldCapacity, newSize) ==
    IF newSize <= oldCapacity THEN {oldCapacity}
    ELSE {Max2(newSize, 2 * oldCapacity)}

\* while (!m_hasToStop), line 263
ReaderLoop ==
    /\ r_pc = "loop"
    /\ r_pc' = IF m_hasToStop["rd"] THEN "stopped" ELSE "read"
    /\ UNCHANGED <<input, capacity, spill, filled, delivered>>
    /\ UNCHANGED <<fifo, calls>>
    /\ UNCHANGED pipeVars
    /\ UNCHANGED codecVars

\* the storage after ::read put bytes at &input[filled]
Stored(bytes) ==
    LET old == input \o spill
    IN [i \in 1..Max2(Len(old), filled + Len(bytes)) |->
           IF i > filled /\ i <= filled + Len(bytes) THEN bytes[i - filled] ELSE old[i]]

\* ::read on the blocking descriptor of line 60, lines 265-270: a request
\* for 0 bytes returns 0, any other waits for data
ReaderRead ==
    /\ r_pc = "read"
    /\ IF capacity - filled = 0
       THEN /\ r_pc' = "loop"
            /\ UNCHANGED <<input, spill, filled, fifo>>
       ELSE /\ fifo # <<>>
            /\ \E read \in 1..Min2(capacity - filled, Len(fifo)) :
                  /\ input' = SubSeq(Stored(SubSeq(fifo, 1, read)), 1, Len(input))
                  /\ spill' = SubSeq(Stored(SubSeq(fifo, 1, read)), Len(input) + 1,
                                     Len(Stored(SubSeq(fifo, 1, read))))
                  /\ filled' = filled + read
                  /\ fifo' = SubSeq(fifo, read + 1, Len(fifo))
            /\ r_pc' = "scan"
    /\ UNCHANGED <<capacity, delivered, calls>>
    /\ UNCHANGED pipeVars
    /\ UNCHANGED codecVars

\* ::read returns -1 with an errno other than ENXIO and EAGAIN, lines
\* 267-268: the exception leaves the thread function, std::terminate
ReaderReadFails ==
    /\ r_pc = "read"
    /\ capacity - filled # 0
    /\ r_pc' = "read_failed"
    /\ UNCHANGED <<input, capacity, spill, filled, delivered>>
    /\ UNCHANGED <<fifo, calls>>
    /\ UNCHANGED pipeVars
    /\ UNCHANGED codecVars

\* the handler line 278-280 invokes for msg, "none" when none is registered
HandlerFor(msg) ==
    IF msg.id \in DOMAIN m_callbacks["rd"] THEN m_callbacks["rd"][msg.id] ELSE "none"

\* what lies behind the new size() after a short result was copied into the
\* old storage: its terminator, then the bytes that were there before
SpillAfterAssign(totalLength) ==
    LET old == input \o spill
        newSize == Len(input) - totalLength
    IN IF filled - totalLength <= newSize THEN <<>>
       ELSE <<NUL>> \o SubSeq(old, newSize + 2, filled - totalLength)

\* one turn of the inner loop, lines 272-291
ReaderScan ==
    /\ r_pc = "scan"
    /\ IF ~nextMessageReturns(input, filled)
       THEN \* the marker loop of nextMessage never exits
            /\ r_pc' = "spinning"
            /\ UNCHANGED <<input, capacity, spill, filled, delivered>>
       ELSE LET msg == nextMessage(input, spill, filled)
            IN IF msg.totalLength > 0
               THEN /\ delivered' = Append(delivered,
                            [id |-> msg.id, content |-> msg.content,
                             handler |-> HandlerFor(msg)])
                    /\ IF msg.totalLength > Len(input)
                       THEN \* substr throws std::out_of_range, line 282
                            /\ r_pc' = "out_of_range"
                            /\ UNCHANGED <<input, capacity, spill, filled>>
                       ELSE \E cap \in CapacityAfterAssign(capacity,
                                                           Len(input) - msg.totalLength) :
                            /\ input' = Substr(input, msg.totalLength, Len(input))
                            /\ filled' = filled - msg.totalLength
                            /\ capacity' = cap
                            /\ IF filled - msg.totalLength > cap
                               THEN \* filled is behind the end of the storage
                                    /\ r_pc' = "corrupt"
                                    /\ spill' = <<>>
                               ELSE /\ r_pc' = "scan"
                                    /\ spill' = SpillAfterAssign(msg.totalLength)
               ELSE /\ IF filled = Len(input)
                       THEN \E cap \in CapacityAfterResize(capacity,
                                            Len(input) + INITIAL_BUFFER_SIZE) :
                            /\ input' = input \o [i \in 1..INITIAL_BUFFER_SIZE |-> NUL]
                            /\ capacity' = cap
                       ELSE UNCHANGED <<input, capacity>>
                    /\ r_pc' = "loop"
                    /\ UNCHANGED <<spill, filled, delivered>>
    /\ UNCHANGED <<fifo, calls>>
    /\ UNCHANGED pipeVars
    /\ UNCHANGED codecVars

Reader == ReaderLoop \/ ReaderRead \/ ReaderScan

(***************************************************************************)
(* Codec runs: write()'s frame for one identifier and payload, scanned as  *)
(* a whole by nextMessage().                                               *)
(***************************************************************************)
InitCodec ==
    /\ InitSys
    /\ c_pc = "args"
    /\ c_id \in Inputs
    /\ c_msg \in Inputs \cup ScenarioPayloads
    /\ c_frame = <<>>
    /\ c_result = EmptyMessage

Encode ==
    /\ c_pc = "args"
    /\ c_frame' = fullMsg(c_id, c_msg)
    /\ c_pc' = "framed"
    /\ UNCHANGED <<c_id, c_msg, c_result>>
    /\ UNCHANGED sysVars

Scan ==
    /\ c_pc = "framed"
    /\ nextMessageReturns(c_frame, Len(c_frame))
    /\ c_result' = nextMessage(c_frame, <<>>, Len(c_frame))
    /\ c_pc' = "scanned"
    /\ UNCHANGED <<c_id, c_msg, c_frame>>
    /\ UNCHANGED sysVars

NextCodec == Encode \/ Scan
SpecCodec == InitCodec /\ [][NextCodec]_vars

(***************************************************************************)
(* Scanner runs: nextMessage() on a buffer that need not come from         *)
(* write(): bytes in front of the marker, a marker look-alike, length      *)
(* fields that do not fit the payload, a damaged terminator.               *)
(***************************************************************************)
RECURSIVE Strings(_, _)
Strings(alphabet, n) ==
    IF n = 0 THEN {<<>>}
    ELSE Strings(alphabet, n - 1)
             \cup {s \o <<c>> : s \in Strings(alphabet, n - 1), c \in alphabet}
Leads == Strings({"x", BACKSLASH}, MaxLead)
Markers == {prefix, [i \in 1..Len(prefix) |-> "E"]}
LengthFields == {<<"1", ":", "0", ":">>, <<"1", ":", "1", ":">>, <<"1", ":", "2", ":">>}
Terminators == {<<"E", "N", "D", ":">>, <<"E", "X", "X", ":">>, <<"X", "N", "D", ":">>,
                <<"E", "N", "D", ";">>, <<"E", "N", "D", ":", ":">>}
Buffers == {lead \o marker \o lengths \o <<"a", ":", "b", ":">> \o terminator :
                lead \in Leads, marker \in Markers, lengths \in LengthFields,
                terminator \in Terminators}
            \cup {lead \o fullMsg(<<"a">>, <<"b">>) \o fullMsg(<<"a">>, <<"b">>) :
                      lead \in Leads}

InitScan ==
    /\ InitSys
    /\ c_pc = "buffer"
    /\ c_id = <<>>
    /\ c_msg = <<>>
    /\ c_frame \in Buffers
    /\ c_result = EmptyMessage

\* nextMessage(input, filled) with the whole buffer filled
ScanBuffer ==
    /\ c_pc = "buffer"
    /\ IF nextMessageReturns(c_frame, Len(c_frame))
       THEN /\ c_result' = nextMessage(c_frame, <<>>, Len(c_frame))
            /\ c_pc' = "buffer_scanned"
       ELSE \* the marker loop of lines 177-184 never exits
            /\ c_pc' = "buffer_spinning"
            /\ UNCHANGED c_result
    /\ UNCHANGED <<c_id, c_msg, c_frame>>
    /\ UNCHANGED sysVars

NextScan == ScanBuffer
SpecScan == InitScan /\ [][NextScan]_vars

(***************************************************************************)
(* The system.  Next: every call on both instances, the destructor and the *)
(* reader thread.  NextStream: the data path, a writer and a started       *)
(* reader, with the larger set of messages.                                *)
(***************************************************************************)
Next ==
    \/ \E p \in Pipes : start(p)
    \/ \E p \in Pipes, id \in CallbackIds, callback \in Handlers : addCallback(p, id, callback)
    \/ \E p \in Pipes, m \in ApiMessages : write(p, m[1], m[2])
    \/ \E p \in Pipes : DestructorBegin(p)
    \/ \E p \in Pipes : DestructorJoined(p)
    \/ ReaderLoop
    \/ ReaderRead
    \/ ReaderReadFails
    \/ ReaderScan

Spec == Init /\ [][Next]_vars

\* the reader thread is scheduled and join() returns once it can
FairSpec == Spec /\ WF_vars(Reader) /\ WF_vars(DestructorJoined("rd"))

NextStream ==
    \/ start("rd")
    \/ \E id \in CallbackIds : addCallback("rd", id, "h1")
    \/ \E m \in Messages : write("wr", m[1], m[2])
    \/ ReaderLoop
    \/ ReaderRead
    \/ ReaderReadFails
    \/ ReaderScan

SpecStream == Init /\ [][NextStream]_vars

(***************************************************************************)
(* Claims                                                                  *)
(***************************************************************************)

\* C1: round trip.  For every identifier and payload without a false
\* escape, scanning the frame write() builds returns the identifier, the
\* payload and the frame's length.
C1_RoundTrip ==
    (c_pc = "scanned" /\ ~FalseEscape(c_id) /\ ~FalseEscape(c_msg))
        => c_result = PipeMessage(c_id, c_msg, Len(c_frame))

(***************************************************************************)
(* Vocabulary of the claims about the data path.                           *)
(***************************************************************************)
\* the frame of a recorded write() call
Frame(c) == fullMsg(c.id, c.msg)
\* the call returned normally and the channel took its whole frame
Intact(c) == ~c.failed /\ c.written = Len(Frame(c))
\* what nextMessage() returns for the frame when it arrives in a single read
SingleRead(c) == nextMessage(Frame(c), <<>>, Len(Frame(c)))
\* the reader thread cannot move until more bytes are written: blocked in
\* ::read, asking ::read for 0 bytes forever, looping inside nextMessage,
\* or ended with its process
ReaderCrashed == r_pc \in {"read_failed", "out_of_range", "corrupt"}
ReaderAtRest ==
    \/ ReaderCrashed
    \/ r_pc = "spinning"
    \/ r_pc = "read" /\ (fifo = <<>> \/ capacity = filled)
\* every identifier written so far has a handler, and had one whenever the
\* reader looked it up
Registered == \A k \in 1..Len(calls) : calls[k].id \in DOMAIN m_callbacks["rd"]
AllHandled == \A k \in 1..Len(delivered) : delivered[k].handler # "none"
\* the handler invocations, in order
Invocations == [k \in 1..Len(delivered) |->
                   [id |-> delivered[k].id, content |-> delivered[k].content]]

\* C2: fragmentation invariance.  Whatever chunks the reader's ::read calls
\* cut one frame into, once every byte has arrived the handler has been
\* invoked exactly once, with the identifier and payload a single read of
\* the whole frame yields, and filled is 0.
C2_FragmentationInvariance ==
    (/\ Len(calls) = 1 /\ Intact(calls[1])
     /\ Registered /\ AllHandled /\ ReaderAtRest /\ r_pc # "read_failed")
        => /\ Invocations = <<[id |-> SingleRead(calls[1]).id,
                               content |-> SingleRead(calls[1]).content]>>
           /\ filled = 0

\* C3: ordering and exactly-once dispatch.  When frames of registered
\* identifiers that fit into two buffer increments were written back to
\* back and every byte has arrived, the handler invocations are the written
\* messages, once each and in the order of the write() calls.
C3_OrderedExactlyOnce ==
    (/\ Len(calls) = 2
     /\ \A k \in 1..2 : Intact(calls[k]) /\ Len(Frame(calls[k])) <= 2 * INITIAL_BUFFER_SIZE
     /\ Registered /\ AllHandled /\ ReaderAtRest /\ r_pc # "read_failed")
        => Invocations = [k \in 1..2 |-> [id |-> calls[k].id, content |-> calls[k].msg]]

\* C4: a write() call that returned normally has put every byte of its
\* frame on the channel, for every payload and every pattern of partial
\* ::write results.
C4_WholeFrameWritten ==
    \A k \in 1..Len(calls) :
        ~calls[k].failed => calls[k].written = Len(Frame(calls[k]))

\* C5: when the reader takes a complete frame with an unregistered
\* identifier out of the buffer, filled decreases by the frame's length,
\* the buffer keeps what followed the frame, and the reader goes on scanning.
C5_UnregisteredConsumed ==
    [][(/\ Len(delivered') = Len(delivered) + 1
        /\ delivered'[Len(delivered')].handler = "none")
          => /\ filled' = filled - nextMessage(input, spill, filled).totalLength
             /\ input' = Substr(input, nextMessage(input, spill, filled).totalLength,
                                Len(input))
             /\ r_pc' = "scan"]_vars

\* C6: access-mode violations have no side effects.  A call that ends with
\* the access error leaves the channel bytes, the callback tables, the
\* reader thread handles and the stop flags as they were; the write-mode
\* instance never gets a reader thread or a handler, and no byte on the
\* channel comes from the read-mode instance.
C6_AccessViolationNoSideEffects ==
    [][/\ (thrown' # thrown /\ thrown'.what = "access")
            => UNCHANGED <<fifo, m_callbacks, m_reader, m_hasToStop>>
       /\ m_reader'["wr"] = "null"
       /\ m_callbacks'["wr"] = NoCallbacks
       /\ \A k \in 1..Len(calls') : m_access(calls'[k].pipe) = "Write"]_vars

\* write() on the read-mode instance was refused while its reader thread
\* ran with a registered handler and bytes were on the channel
C6_Witness ==
    /\ thrown = Exception("rd", "write", "access")
    /\ m_reader["rd"] = "thread"
    /\ m_callbacks["rd"] # NoCallbacks
    /\ fifo # <<>>

\* C7: a registered identifier keeps the handler of its first successful
\* registration; a call that ends with the duplicate error leaves the
\* callback table unchanged.
C7_FirstRegistrationWins ==
    [][/\ \A p \in Pipes : \A id \in DOMAIN m_callbacks[p] :
             /\ id \in DOMAIN m_callbacks'[p]
             /\ m_callbacks'[p][id] = m_callbacks[p][id]
       /\ (thrown' # thrown /\ thrown'.what = "duplicate")
             => UNCHANGED m_callbacks]_vars

\* a second addCallback() for identifier "a" was refused and the table
\* still holds the first handler
C7_Witness ==
    /\ thrown = Exception("rd", "addCallback", "duplicate")
    /\ m_callbacks["rd"] = [id \in {<<"a">>} |-> "h2"]

\* C8: buffer growth.  Once every byte of a frame longer than the initial
\* buffer has arrived, under any chunking, the handler has been invoked
\* exactly once, with the complete payload.
C8_BufferGrowth ==
    (/\ Len(calls) = 1 /\ Intact(calls[1])
     /\ Len(Frame(calls[1])) > INITIAL_BUFFER_SIZE
     /\ Registered /\ AllHandled /\ ReaderAtRest /\ r_pc # "read_failed")
        => /\ Len(delivered) = 1
           /\ delivered[1].content = calls[1].msg

\* C9: cooperative stop.  The descriptor is closed only after the reader
\* thread left its loop, and once the destructor waits in join() the reader
\* reaches the end of handleRead and join() returns.
C9_CooperativeStop ==
    /\ [](m_fd["rd"] = "closed" => (m_reader["rd"] = "null" \/ r_pc = "stopped"))
    /\ (owner["rd"] = "joining" /\ ~ReaderCrashed)
           ~> (owner["rd"] = "destroyed" \/ ReaderCrashed)

\* C10: registration never overlaps the running reader.  Once start() has
\* launched the reader thread no step changes the callback table.
C10_NoRegistrationWhileRunning ==
    [][m_reader["rd"] = "thread" => m_callbacks'["rd"] = m_callbacks["rd"]]_vars

\* C11: a failing ::read moves the reader to the end of handleRead and the
\* failure reaches the owning thread; a ::read that brings no data leaves
\* the reader in its loop with the buffer and filled unchanged.
C11_ReadFailureStops ==
    [][/\ (r_pc = "read" /\ r_pc' = "loop")
            => UNCHANGED <<input, capacity, spill, filled, delivered>>
       /\ (r_pc = "read" /\ r_pc' \notin {"read", "loop", "scan"})
            => /\ r_pc' = "stopped"
               /\ thrown' = Exception("rd", "handleRead", "failed")]_vars

\* the phases of the reader: Idle, Running, Stopping, Stopped
Lifecycle ==
    IF m_reader["rd"] = "null" THEN 0
    ELSE IF r_pc = "stopped" THEN 3
    ELSE IF m_hasToStop["rd"] THEN 2
    ELSE 1

\* C12: start() is a no-op when the reader runs.  Once the reader thread
\* exists, its position, buffer and filled change only by steps of that
\* one thread, the thread handle stays, and the lifecycle never moves back.
C12_StartIdempotent ==
    [][/\ Lifecycle' >= Lifecycle
       /\ m_reader["rd"] = "thread" => m_reader'["rd"] = "thread"
       /\ (m_reader["rd"] = "thread" /\ readerVars' # readerVars)
            => (ReaderLoop \/ ReaderRead \/ ReaderReadFails \/ ReaderScan)]_vars

\* the reader went through all phases: started, got a message while start()
\* could be called again, was stopped by the destructor and joined
C12_Witness ==
    /\ m_reader["rd"] = "thread"
    /\ delivered # <<>>
    /\ r_pc = "stopped"
    /\ owner["rd"] = "destroyed"

\* C13: the documented scenario.  For identifier NAMEDPIPE and payload
\* a:b\\c the frame carries the identifier as a backslash and NAMEDPIPE
\* with idLen 10 and the payload as it is, and scanning the frame returns
\* identifier NAMEDPIPE, the payload unchanged and the frame's length.
C13_Scenario ==
    (c_id = PREFIX /\ c_msg \in ScenarioPayloads)
        => /\ c_pc \in {"framed", "scanned"}
                => c_frame = prefix \o <<"1", "0", ":">> \o to_string(Len(c_msg)) \o <<":">>
                                 \o <<BACKSLASH>> \o PREFIX \o <<":">> \o c_msg
                                 \o <<":">> \o END \o <<":">>
           /\ c_pc = "scanned" => c_result = PipeMessage(PREFIX, c_msg, Len(c_frame))

\* the frame of the scenario was scanned and gave the payload back
C13_Witness ==
    /\ c_pc = "scanned"
    /\ c_id = PREFIX
    /\ c_msg = <<"a", ":", "b", BACKSLASH, BACKSLASH, "c">>
    /\ c_result.id = PREFIX
    /\ c_result.content = c_msg

\* a reserved token starts at position i of s
TokenAt(s, i) ==
    \E tag \in {PREFIX, START, END} :
        /\ i + Len(tag) - 1 <= Len(s)
        /\ SubSeq(s, i, i + Len(tag) - 1) = tag
\* s with one backslash in front of every reserved token, all else unchanged
RECURSIVE EscapedFrom(_, _)
EscapedFrom(s, i) ==
    IF i > Len(s) THEN <<>>
    ELSE (IF TokenAt(s, i) THEN <<BACKSLASH>> ELSE <<>>) \o <<s[i]>> \o EscapedFrom(s, i + 1)
Escaped(s) == EscapedFrom(s, 1)

\* C14: escaping on encode.  The frame carries identifier and payload with
\* one backslash in front of every occurrence of NAMEDPIPE, START and END
\* and every other byte unchanged, and its two length fields are the
\* lengths of these escaped forms.
C14_EscapingOnEncode ==
    c_pc \in {"framed", "scanned"}
        => c_frame = prefix \o to_string(Len(Escaped(c_id))) \o <<":">>
                         \o to_string(Len(Escaped(c_msg))) \o <<":">>
                         \o Escaped(c_id) \o <<":">> \o Escaped(c_msg)
                         \o <<":">> \o END \o <<":">>

\* the positions of buf where the whole marker NAMEDPIPE:START: stands with
\* no backslash right in front of it
GenuineMarkers(buf) ==
    {p \in 0..(Len(buf) - Len(prefix)) :
        /\ Substr(buf, p, Len(prefix)) = prefix
        /\ p = 0 \/ buf[p] # BACKSLASH}
\* what nextMessage returns for the bytes of buf from position p on
ScannedFrom(buf, p) == nextMessage(Substr(buf, p, Len(buf)), <<>>, Len(buf) - p)

\* C15: marker acceptance.  A buffer without a genuine marker gives no
\* frame; when bytes precede the first genuine marker and a frame stands
\* there, nextMessage returns that frame, its fields read from the marker's
\* position and its consumed length reaching to the frame's end.
C15_MarkerAcceptance ==
    c_pc = "buffer_scanned"
        => /\ GenuineMarkers(c_frame) = {} => c_result.totalLength = 0
           /\ GenuineMarkers(c_frame) # {}
                => LET p == SetMin(GenuineMarkers(c_frame))
                       own == ScannedFrom(c_frame, p)
                   IN own.totalLength > 0
                          => c_result = PipeMessage(own.id, own.content,
                                                    p + own.totalLength)

\* C16: terminator check.  When nextMessage returns a frame, the three
\* bytes in front of the last byte of the consumed length are END and the
\* last byte is ':'.
C16_TerminatorExact ==
    (c_pc = "buffer_scanned" /\ c_result.totalLength > 0)
        => /\ c_result.totalLength <= Len(c_frame)
           /\ Substr(c_frame, c_result.totalLength - Len(END) - 1, Len(END)) = END
           /\ c_frame[c_result.totalLength] = ":"

\* C17: the scan terminates.  nextMessage returns for every buffer, also
\* when the first marker candidate has a backslash in front of it.
C17_ScanTerminates == c_pc # "buffer_spinning"

\* the call left the marker and a part of its frame on the channel
CutShort(c) == Len(prefix) <= c.written /\ c.written < Len(Frame(c))

\* C18: forward progress after a malformed frame.  When a frame cut short
\* is followed by a complete frame of a registered identifier and every
\* byte has arrived, the reader has raised no error and has dispatched the
\* complete frame.
C18_ProgressAfterMalformed ==
    (/\ Len(calls) = 2 /\ CutShort(calls[1]) /\ Intact(calls[2])
     /\ Registered /\ AllHandled /\ ReaderAtRest /\ r_pc # "read_failed")
        => /\ ~ReaderCrashed
           /\ \E k \in 1..Len(delivered) :
                 /\ delivered[k].id = calls[2].id
                 /\ delivered[k].content = calls[2].msg

\* the bytes the write() calls put on the channel, in order
RECURSIVE WrittenUpTo(_)
WrittenUpTo(n) ==
    IF n = 0 THEN <<>>
    ELSE WrittenUpTo(n - 1) \o SubSeq(Frame(calls[n]), 1, calls[n].written)
\* the bytes the reader's ::read calls have taken from the channel
ReadSoFar ==
    SubSeq(WrittenUpTo(Len(calls)), 1, Len(WrittenUpTo(Len(calls))) - Len(fifo))
\* the frames handleRead took out of the buffer, as bytes
RECURSIVE ConsumedUpTo(_)
ConsumedUpTo(n) ==
    IF n = 0 THEN <<>>
    ELSE ConsumedUpTo(n - 1) \o fullMsg(delivered[n].id, delivered[n].content)
\* the first filled bytes of the buffer
InBuffer == [i \in 1..filled |-> At(input, spill, i - 1)]

\* C19: stream conservation.  While the reader runs, the frames consumed
\* so far followed by the first filled bytes of the buffer are the bytes
\* read from the channel so far, in order.
C19_StreamConservation ==
    (r_pc # "none" /\ ~ReaderCrashed)
        => ConsumedUpTo(Len(delivered)) \o InBuffer = ReadSoFar

\* what a call nextMessage(buf, n) gives; totalLength -1 stands for a call
\* that does not return
ScanOutcome(buf, behind, n) ==
    IF nextMessageReturns(buf, n) THEN nextMessage(buf, behind, n)
    ELSE PipeMessage(<<>>, <<>>, -1)
\* contents a buffer can have behind its first filled bytes
OtherTails == {<<>>, <<NUL>>, <<":">>, <<BACKSLASH, "N">>, <<"E", "N", "D", ":">>}

\* C20: bytes beyond filled are never interpreted.  In every state of the
\* reader filled is at most the buffer's length, and nextMessage gives for
\* the buffer what it gives for any buffer with the same first filled bytes.
C20_BeyondFilledIgnored ==
    r_pc # "none"
        => /\ filled <= Len(input)
           /\ \A tail \in OtherTails :
                 ScanOutcome(InBuffer \o tail, <<>>, filled)
                     = ScanOutcome(input, spill, filled)

====
